---- MODULE Spec2Model ----
(***************************************************************************)
(* Model of latex.py: the command-line pipeline                            *)
(*   load_latex -> normalize_latex -> build_page -> write_and_open         *)
(* run by main().  A Python str is a sequence of characters; a character   *)
(* is a one-character TLA+ string, and a non-ASCII code point is the atom  *)
(* "U+XXXX".                                                               *)
(***************************************************************************)
EXTENDS Integers, Sequences, FiniteSets, TLC

VARIABLES args, pc, consulted, stdin_data, raw_latex, normalized, template,
          html, path, written, viewer, stdout, stderr, exc, exit_code

vars == <<args, pc, consulted, stdin_data, raw_latex, normalized, template,
          html, path, written, viewer, stdout, stderr, exc, exit_code>>

(* Python's None, and the value of a local that is not bound yet.  Every  *)
(* other value is a sequence too: a str of its characters, a path of its   *)
(* parts, a message of its pieces.                                         *)
None == <<"None">>

(***************************************************************************)
(* str primitives used by the program                                      *)
(***************************************************************************)

(* str.strip() with no argument removes whitespace characters. *)
IsSpace(c) == c \in {" ", "\n", "\t"}

strip(s) ==
    LET keep == {i \in 1..Len(s) : ~IsSpace(s[i])}
        first == CHOOSE i \in keep : \A j \in keep : i <= j
        last == CHOOSE i \in keep : \A j \in keep : j <= i
    IN IF keep = {} THEN <<>> ELSE SubSeq(s, first, last)

(* `marker in s` : substring test. *)
StartsAt(s, t, i) == i + Len(t) - 1 <= Len(s) /\ SubSeq(s, i, i + Len(t) - 1) = t

Contains(s, t) == \E i \in 1..(Len(s) + 1) : StartsAt(s, t, i)

(* str.find(t, i), 1-based: the first occurrence at or after i; 0 when   *)
(* there is none.                                                          *)
FindFrom(s, t, i) ==
    LET hits == {k \in i..(Len(s) + 1) : StartsAt(s, t, k)}
    IN IF hits = {} THEN 0 ELSE CHOOSE k \in hits : \A j \in hits : k <= j

(* str.replace(old, new): every non-overlapping occurrence, left to right, *)
(* the inserted text is not scanned again.                                 *)
RECURSIVE ReplaceFrom(_, _, _, _)
ReplaceFrom(s, old, new, i) ==
    LET k == FindFrom(s, old, i)
    IN IF k = 0 THEN SubSeq(s, i, Len(s))
       ELSE SubSeq(s, i, k - 1) \o new \o ReplaceFrom(s, old, new, k + Len(old))

Replace(s, old, new) == ReplaceFrom(s, old, new, 1)

(***************************************************************************)
(* json.dumps on a str                                                     *)
(***************************************************************************)

(* The non-ASCII code points that occur (default_sample's Cyrillic word),  *)
(* with the four hex digits json.dumps writes for them (ensure_ascii).     *)
NonAscii == {"U+041C", "U+0430", "U+0442", "U+0440", "U+0438", "U+0446"}

HexOf(c) ==
    CASE c = "U+041C" -> <<"0", "4", "1", "c">>
      [] c = "U+0430" -> <<"0", "4", "3", "0">>
      [] c = "U+0442" -> <<"0", "4", "4", "2">>
      [] c = "U+0440" -> <<"0", "4", "4", "0">>
      [] c = "U+0438" -> <<"0", "4", "3", "8">>
      [] c = "U+0446" -> <<"0", "4", "4", "6">>

JsonEscape(c) ==
    CASE c = "\"" -> <<"\\", "\"">>
      [] c = "\\" -> <<"\\", "\\">>
      [] c = "\n" -> <<"\\", "n">>
      [] c = "\t" -> <<"\\", "t">>
      [] c \in NonAscii -> <<"\\", "u">> \o HexOf(c)
      [] OTHER -> <<c>>

(* The escapes of the characters of s, in order (split in halves). *)
RECURSIVE JsonBody(_)
JsonBody(s) ==
    IF Len(s) = 0 THEN <<>>
    ELSE IF Len(s) = 1 THEN JsonEscape(s[1])
    ELSE LET m == Len(s) \div 2
         IN JsonBody(SubSeq(s, 1, m)) \o JsonBody(SubSeq(s, m + 1, Len(s)))

JsonDumps(s) == <<"\"">> \o JsonBody(s) \o <<"\"">>

(***************************************************************************)
(* Bounds and the inputs that are enumerated                               *)
(***************************************************************************)

(* The largest number of fragments a command-line text, a file or the     *)
(* standard input is made of.                                              *)
MaxLen == 2

PRELOAD == <<"_", "_", "P", "R", "E", "L", "O", "A", "D", "_", "_">>
SAMPLE == <<"_", "_", "S", "A", "M", "P", "L", "E", "_", "_">>

(* The five markers normalize_latex looks for, in the order of its tuple. *)
Markers == << <<"\\", "(">>, <<"\\", ")">>, <<"$", "$">>, <<"\\", "[">>, <<"\\", "]">> >>

MarkerSet == {Markers[i] : i \in 1..Len(Markers)}

Fragments == MarkerSet \cup {<<" ">>, <<"x">>, <<"\"">>, PRELOAD, SAMPLE}

RECURSIVE InputsOfLen(_)
InputsOfLen(n) ==
    IF n = 0 THEN {<<>>}
    ELSE {f \o s : f \in Fragments, s \in InputsOfLen(n - 1)}

Inputs == UNION {InputsOfLen(n) : n \in 0..MaxLen}

(* The paths -f may name, and the ones that are regular files. *)
Files == {<<"a.tex">>, <<"missing.tex">>}
ExistingFiles == {<<"a.tex">>}
is_file(p) == p \in ExistingFiles

(* pathlib.Path(__file__).with_name("index.html"), and the text index.html *)
(* may hold: one content placeholder and one sample placeholder.           *)
template_path == <<"index.html">>

Templates ==
    { <<"<", "p", "=">> \o PRELOAD \o <<";", "s", "=">> \o SAMPLE \o <<">">>,
      <<"<", "s", "=">> \o SAMPLE \o <<";", "p", "=">> \o PRELOAD \o <<">">> }

(* The name tempfile.NamedTemporaryFile(suffix=".html") hands out. *)
TempFiles == {<<"/", "tmp", "tmp0.html">>}

(***************************************************************************)
(* The program's functions                                                 *)
(***************************************************************************)

(* A load_latex that looks at --text before --file. *)
load_source_text_first(a) ==
    IF a.text # None /\ a.text # <<>> THEN "text"
    ELSE IF a.file # None THEN "file"
    ELSE "stdin"

(* The branch load_latex takes.  `if args.file:` holds for every Path (a  *)
(* Path has no false value); `if args.text:` fails for None and for "".    *)
load_source(a) ==
    IF a.file # None THEN "file"
    ELSE IF a.text # None /\ a.text # <<>> THEN "text"
    ELSE "stdin"

(* A load_latex without the `if not data.strip()` test. *)
stdin_result_raw(data) == data

(* The tail of load_latex: what it returns for the data read from stdin. *)
stdin_result(data) == IF strip(data) = <<>> THEN <<>> ELSE data

(* A load_latex without the is_file test: read_text raises for itself. *)
no_such_file_errno(p) == <<"[Errno 2] No such file or directory: ">> \o p

(* str(FileNotFoundError(f"No such file: {args.file}")) *)
no_such_file(p) == <<"No such file: ">> \o p

(* str(FileNotFoundError(f"Template not found: {template_path}")) *)
template_not_found(p) == <<"Template not found: ">> \o p

HasMarker(s) == \E i \in 1..Len(Markers) : Contains(s, Markers[i])

(* A normalize_latex without the marker test. *)
normalize_latex_always_wrap(source) ==
    LET stripped == strip(source)
    IN IF stripped = <<>> THEN <<>>
       ELSE <<"$", "$", "\n">> \o stripped \o <<"\n", "$", "$">>

(* A normalize_latex that wraps source instead of stripped. *)
normalize_latex_wrap_source(source) ==
    LET stripped == strip(source)
    IN IF stripped = <<>> THEN <<>>
       ELSE IF HasMarker(stripped) THEN stripped
       ELSE <<"$", "$", "\n">> \o source \o <<"\n", "$", "$">>

(* A normalize_latex whose tuple of markers lacks the last one. *)
normalize_latex_four_markers(source) ==
    LET stripped == strip(source)
    IN IF stripped = <<>> THEN <<>>
       ELSE IF \E i \in 1..(Len(Markers) - 1) : Contains(stripped, Markers[i]) THEN stripped
       ELSE <<"$", "$", "\n">> \o stripped \o <<"\n", "$", "$">>

normalize_latex(source) ==
    LET stripped == strip(source)
    IN IF stripped = <<>> THEN <<>>
       ELSE IF HasMarker(stripped) THEN stripped
       ELSE <<"$", "$", "\n">> \o stripped \o <<"\n", "$", "$">>

default_sample ==
    <<"E", " ", "=", " ", "m", "c", "^", "2", "\n",
      "\\", "i", "n", "t", "_", "0", "^", "{", "\\", "i", "n", "f", "t", "y", "}",
      " ", "e", "^", "{", "-", "x", "^", "2", "}", "\\", ",", "d", "x", " ", "=", " ",
      "\\", "f", "r", "a", "c", "{", "\\", "s", "q", "r", "t", "{", "\\", "p", "i",
      "}", "}", "{", "2", "}", "\n",
      "\\", "t", "e", "x", "t", "b", "f", "{",
      "U+041C", "U+0430", "U+0442", "U+0440", "U+0438", "U+0446", "U+0430", ":", " ", "}",
      "\\", "b", "e", "g", "i", "n", "{", "b", "m", "a", "t", "r", "i", "x", "}",
      "1", " ", "&", " ", "0", " ", "\\", " ", "0", " ", "&", " ", "1",
      "\\", "e", "n", "d", "{", "b", "m", "a", "t", "r", "i", "x", "}">>

(* build_page, given the text template_path.read_text() returned. *)
build_page(latex, template_text) ==
    Replace(Replace(template_text, PRELOAD, JsonDumps(latex)),
            SAMPLE, JsonDumps(default_sample))

(* A write_and_open that raises when webbrowser.open answers False. *)
write_and_open_outcome_checked(write_ok, should_open, launched) ==
    IF write_ok /\ (~should_open \/ launched) THEN "return" ELSE "raise"

(* How write_and_open ends: it raises when the write fails and returns the *)
(* path otherwise; the result of webbrowser.open is not looked at.         *)
write_and_open_outcome(write_ok, should_open, launched) ==
    IF write_ok THEN "return" ELSE "raise"

(* f"Preview written to {path}" and f"Error: {exc}" *)
success_line(p) == <<"Preview written to ">> \o p
error_line(e) == <<"Error: ">> \o e

(***************************************************************************)
(* main(): one action per step, pc names the statement about to run        *)
(***************************************************************************)

(* parse_args() has run: args holds the options of the command line.      *)
(* exit_code is -1 while the process runs.                                 *)
Init ==
    /\ args \in [file : {None}, text : {None} \cup Inputs, open : BOOLEAN]
                \cup [file : Files, text : {None, <<"x">>}, open : BOOLEAN]
    /\ pc = "load_latex"
    /\ consulted = {}
    /\ stdin_data = None
    /\ raw_latex = None
    /\ normalized = None
    /\ template = None
    /\ html = None
    /\ path = None
    /\ written = None
    /\ viewer = "not called"
    /\ stdout = <<>>
    /\ stderr = <<>>
    /\ exc = None
    /\ exit_code = -1

Raise(e) == pc' = "except" /\ exc' = e

(* load_latex, file branch, the path is no regular file: raises. *)
LoadMissingFile ==
    /\ pc = "load_latex"
    /\ load_source(args) = "file"
    /\ ~is_file(args.file)
    /\ consulted' = consulted \cup {"file"}
    /\ Raise(no_such_file(args.file))
    /\ UNCHANGED <<args, stdin_data, raw_latex, normalized, template, html, path,
                   written, viewer, stdout, stderr, exit_code>>

(* load_latex, file branch: returns what read_text gives. *)
LoadFile ==
    /\ pc = "load_latex"
    /\ load_source(args) = "file"
    /\ is_file(args.file)
    /\ consulted' = consulted \cup {"file"}
    /\ \E data \in Inputs : raw_latex' = data
    /\ pc' = "normalize_latex"
    /\ UNCHANGED <<args, stdin_data, normalized, template, html, path, written,
                   viewer, stdout, stderr, exc, exit_code>>

(* load_latex, file branch: read_text fails (unreadable, not UTF-8). *)
LoadFileError ==
    /\ pc = "load_latex"
    /\ load_source(args) = "file"
    /\ is_file(args.file)
    /\ consulted' = consulted \cup {"file"}
    /\ Raise(<<"read failed: ">> \o args.file)
    /\ UNCHANGED <<args, stdin_data, raw_latex, normalized, template, html, path,
                   written, viewer, stdout, stderr, exit_code>>

(* load_latex, text branch: returns args.text. *)
LoadText ==
    /\ pc = "load_latex"
    /\ load_source(args) = "text"
    /\ consulted' = consulted \cup {"text"}
    /\ raw_latex' = args.text
    /\ pc' = "normalize_latex"
    /\ UNCHANGED <<args, stdin_data, normalized, template, html, path, written,
                   viewer, stdout, stderr, exc, exit_code>>

(* load_latex, last branch: reads all of stdin. *)
LoadStdin ==
    /\ pc = "load_latex"
    /\ load_source(args) = "stdin"
    /\ consulted' = consulted \cup {"stdin"}
    /\ \E data \in Inputs :
          /\ stdin_data' = data
          /\ raw_latex' = stdin_result(data)
    /\ pc' = "normalize_latex"
    /\ UNCHANGED <<args, normalized, template, html, path, written, viewer,
                   stdout, stderr, exc, exit_code>>

Normalize ==
    /\ pc = "normalize_latex"
    /\ normalized' = normalize_latex(raw_latex)
    /\ pc' = "check_template"
    /\ UNCHANGED <<args, consulted, stdin_data, raw_latex, template, html, path,
                   written, viewer, stdout, stderr, exc, exit_code>>

(* `if not template_path.is_file(): raise FileNotFoundError(...)` *)
CheckTemplate ==
    /\ pc = "check_template"
    /\ \E present \in BOOLEAN :
          IF present THEN pc' = "build_page" /\ exc' = exc
          ELSE Raise(template_not_found(template_path))
    /\ UNCHANGED <<args, consulted, stdin_data, raw_latex, normalized, template,
                   html, path, written, viewer, stdout, stderr, exit_code>>

BuildPage ==
    /\ pc = "build_page"
    /\ \E text \in Templates :
          /\ template' = text
          /\ html' = build_page(normalized, text)
    /\ pc' = "write_and_open"
    /\ UNCHANGED <<args, consulted, stdin_data, raw_latex, normalized, path,
                   written, viewer, stdout, stderr, exc, exit_code>>

(* write_and_open: the temporary file is written, the viewer is asked for  *)
(* when should_open, and the path is returned.                             *)
WriteAndOpen ==
    /\ pc = "write_and_open"
    /\ \E name \in TempFiles, launched \in BOOLEAN :
          /\ written' = html
          /\ viewer' = IF ~args.open THEN "not called"
                       ELSE IF launched THEN "launched" ELSE "failed"
          /\ IF write_and_open_outcome(TRUE, args.open, launched) = "return"
             THEN path' = name /\ pc' = "print" /\ exc' = exc
             ELSE path' = path /\ Raise(<<"viewer failed: ">> \o name)
    /\ UNCHANGED <<args, consulted, stdin_data, raw_latex, normalized, template,
                   html, stdout, stderr, exit_code>>

(* write_and_open: path.write_text fails. *)
WriteError ==
    /\ pc = "write_and_open"
    /\ \E name \in TempFiles :
          /\ write_and_open_outcome(FALSE, args.open, FALSE) = "raise"
          /\ Raise(<<"write failed: ">> \o name)
    /\ UNCHANGED <<args, consulted, stdin_data, raw_latex, normalized, template,
                   html, path, written, viewer, stdout, stderr, exit_code>>

(* print(f"Preview written to {path}"), then main returns. *)
PrintPath ==
    /\ pc = "print"
    /\ stdout' = Append(stdout, success_line(path))
    /\ pc' = "done"
    /\ exit_code' = 0
    /\ UNCHANGED <<args, consulted, stdin_data, raw_latex, normalized, template,
                   html, path, written, viewer, stderr, exc>>

(* except Exception as exc: print to stderr, sys.exit(1). *)
HandleException ==
    /\ pc = "except"
    /\ stderr' = Append(stderr, error_line(exc))
    /\ pc' = "exit"
    /\ exit_code' = 1
    /\ UNCHANGED <<args, consulted, stdin_data, raw_latex, normalized, template,
                   html, path, written, viewer, stdout, exc>>

Next ==
    \/ LoadMissingFile
    \/ LoadFile
    \/ LoadFileError
    \/ LoadText
    \/ LoadStdin
    \/ Normalize
    \/ CheckTemplate
    \/ BuildPage
    \/ WriteAndOpen
    \/ WriteError
    \/ PrintPath
    \/ HandleException

Spec == Init /\ [][Next]_vars

(***************************************************************************)
(* Vocabulary of the properties                                            *)
(***************************************************************************)

(* str.find, 1-based; 0 when absent. *)
Find(s, t) == FindFrom(s, t, 1)

(* str.count: the number of non-overlapping occurrences, which is the      *)
(* number of substitutions str.replace performs.                           *)
RECURSIVE CountFrom(_, _, _)
CountFrom(s, t, i) ==
    LET k == FindFrom(s, t, i)
    IN IF k = 0 THEN 0 ELSE 1 + CountFrom(s, t, k + Len(t))

Count(s, t) == CountFrom(s, t, 1)

(* json.loads, to read back what json.dumps wrote.  What the decoder       *)
(* answers for text that is not a JSON string:                             *)
Invalid == <<"<JSONDecodeError>">>

(* The JSON string scanner: from position i (just after the opening quote) *)
(* up to the first unescaped quote, undoing the escapes.                   *)
RECURSIVE JsonScan(_, _, _)
JsonScan(doc, i, acc) ==
    IF i > Len(doc) THEN Invalid
    ELSE IF doc[i] = "\"" THEN acc
    ELSE IF doc[i] = "\n" \/ doc[i] = "\t" THEN Invalid
    ELSE IF doc[i] # "\\" THEN JsonScan(doc, i + 1, Append(acc, doc[i]))
    ELSE IF i + 1 > Len(doc) THEN Invalid
    ELSE IF doc[i + 1] \in {"\"", "\\", "/"}
         THEN JsonScan(doc, i + 2, Append(acc, doc[i + 1]))
    ELSE IF doc[i + 1] = "n" THEN JsonScan(doc, i + 2, Append(acc, "\n"))
    ELSE IF doc[i + 1] = "t" THEN JsonScan(doc, i + 2, Append(acc, "\t"))
    ELSE IF doc[i + 1] = "u" /\ i + 5 <= Len(doc)
            /\ \E c \in NonAscii : HexOf(c) = SubSeq(doc, i + 2, i + 5)
         THEN JsonScan(doc, i + 6,
                  Append(acc, CHOOSE c \in NonAscii : HexOf(c) = SubSeq(doc, i + 2, i + 5)))
    ELSE Invalid

(* json.JSONDecoder().raw_decode(doc, pos) for a string value (pos 1-based). *)
JsonLoadsAt(doc, pos) ==
    IF pos >= 1 /\ pos <= Len(doc) /\ doc[pos] = "\"" THEN JsonScan(doc, pos + 1, <<>>)
    ELSE Invalid

(* The five recognized delimiter tokens: \( \) \[ \] $$ *)
DelimiterTokens ==
    {<<"\\", "(">>, <<"\\", ")">>, <<"\\", "[">>, <<"\\", "]">>, <<"$", "$">>}

ContainsToken(s) == \E tok \in DelimiterTokens : Contains(s, tok)

(* The display-open marker, a newline, s, a newline, the display-close marker. *)
DisplayWrap(s) == <<"$", "$", "\n">> \o s \o <<"\n", "$", "$">>

EncodedSample == JsonDumps(default_sample)

(* Where the content placeholder's replacement starts in the Document: the *)
(* text before the placeholder with its sample placeholder filled in.      *)
ContentPos(text) ==
    Len(Replace(SubSeq(text, 1, Find(text, PRELOAD) - 1), SAMPLE, EncodedSample)) + 1

(***************************************************************************)
(* Properties                                                              *)
(***************************************************************************)

(* C1: normalize_latex is idempotent: normalizing a normalized markup      *)
(* returns it unchanged, for every input the run loaded.                   *)
C1_Idempotent ==
    normalized # None => normalize_latex(normalized) = normalized

(* C1 witness: a freshly wrapped markup has been produced. *)
C1_Witness ==
    /\ normalized # None
    /\ raw_latex = <<" ", "x">>
    /\ normalized = DisplayWrap(<<"x">>)

(* C2 as stated: every non-empty input without a delimiter token is       *)
(* normalized to the display wrap of its trimmed text.                     *)
C2_WrapNonEmpty ==
    (normalized # None /\ raw_latex # <<>> /\ ~ContainsToken(raw_latex))
        => normalized = DisplayWrap(strip(raw_latex))

(* C2 amended: every input without a delimiter token whose trimmed text   *)
(* is non-empty is normalized to the display wrap of its trimmed text.     *)
C2_WrapNonBlank ==
    (normalized # None /\ strip(raw_latex) # <<>> /\ ~ContainsToken(raw_latex))
        => normalized = DisplayWrap(strip(raw_latex))

(* C2 witness: an input with surrounding whitespace has been wrapped. *)
C2_Witness ==
    /\ raw_latex = <<"x", " ">>
    /\ normalized = <<"$", "$", "\n", "x", "\n", "$", "$">>

(* C3: an input that contains any of the five delimiter tokens is          *)
(* normalized to its trimmed text, with no wrapping.                       *)
C3_TokenSuppressesWrap ==
    (normalized # None /\ ContainsToken(raw_latex)) => normalized = strip(raw_latex)

(* C3 witness: a stray closing marker alone, with whitespace, was trimmed. *)
C3_Witness ==
    /\ raw_latex = <<" ", "\\", "]">>
    /\ normalized = <<"\\", "]">>

(* C4: the Document contains the JSON-encoded fallback sample exactly once. *)
C4_SampleOnce ==
    html # None => Count(html, EncodedSample) = 1

(* C5: for a normalized markup with a double quote, decoding the JSON      *)
(* string at the content placeholder's position gives the markup back.     *)
C5_RoundTrip ==
    (html # None /\ Contains(normalized, <<"\"">>))
        => JsonLoadsAt(html, ContentPos(template)) = normalized

(* C6: the Document contains neither placeholder token, and each of the    *)
(* two substitutions replaced exactly one occurrence.                      *)
C6_PlaceholdersReplacedOnce ==
    html # None =>
        /\ ~Contains(html, PRELOAD)
        /\ ~Contains(html, SAMPLE)
        /\ Count(template, PRELOAD) = 1
        /\ Count(Replace(template, PRELOAD, JsonDumps(normalized)), SAMPLE) = 1

(* C7 as stated: one source is consulted; with a file path only the file;  *)
(* with no file path and a text argument supplied the text is returned     *)
(* and stdin is not read; stdin is read only when neither is supplied.     *)
C7_OneSourceSupplied ==
    pc # "load_latex" =>
        /\ Cardinality(consulted) = 1
        /\ args.file # None => consulted = {"file"}
        /\ (args.file = None /\ args.text # None)
               => (consulted = {"text"} /\ raw_latex = args.text)
        /\ "stdin" \in consulted => (args.file = None /\ args.text = None)

(* C7 amended: the same with "a non-empty text argument": an empty text    *)
(* argument counts as absent and stdin is read.                            *)
C7_OneSourceNonEmpty ==
    pc # "load_latex" =>
        /\ Cardinality(consulted) = 1
        /\ args.file # None => consulted = {"file"}
        /\ (args.file = None /\ args.text # None /\ args.text # <<>>)
               => (consulted = {"text"} /\ raw_latex = args.text)
        /\ "stdin" \in consulted
               => (args.file = None /\ (args.text = None \/ args.text = <<>>))

(* C7 witness: a file took precedence over a text argument. *)
C7_Witness ==
    /\ pc = "normalize_latex"
    /\ args.file = <<"a.tex">>
    /\ args.text = <<"x">>
    /\ consulted = {"file"}

(* C8: with a file path that is no regular file the run reads no stdin,    *)
(* loads no template, writes no output, prints no success line, and ends   *)
(* with the single line "Error: No such file: <path>" and status 1.        *)
C8_MissingFileFails ==
    (args.file # None /\ args.file \notin ExistingFiles) =>
        /\ pc \in {"load_latex", "except", "exit"}
        /\ "stdin" \notin consulted /\ stdin_data = None
        /\ template = None /\ html = None /\ written = None
        /\ stdout = <<>>
        /\ pc # "exit" => (stderr = <<>> /\ exit_code = -1)
        /\ pc = "exit" =>
              /\ stderr = << <<"Error: ", "No such file: ">> \o args.file >>
              /\ exit_code = 1

(* C8 witness: such a run has ended. *)
C8_Witness ==
    /\ args.file = <<"missing.tex">>
    /\ pc = "exit"
    /\ Len(stderr) = 1

C10_BlankStdin ==
    (stdin_data # None /\ \A i \in 1..Len(stdin_data) : stdin_data[i] \in {" ", "\n", "\t"}) =>
        /\ args.file = None /\ args.text \in {None, <<>>}
        /\ raw_latex = <<>>
        /\ normalized = None => pc = "normalize_latex"
        /\ normalized # None => normalized = <<>>
        /\ html # None => Contains(html, EncodedSample)

(* C10 witness: a Document was built from a whitespace-only stdin. *)
C10_Witness ==
    /\ stdin_data = <<" ">>
    /\ args.text = None
    /\ html # None

====
